---- MODULE Spec2Model ----
(***************************************************************************)
(* A model of luaiconv.c: the Lua binding of iconv(3).                     *)
(*                                                                         *)
(* The state is the set of handle userdata the library has created (each   *)
(* holds one iconv_t), the conversion descriptors the C library has        *)
(* allocated for them (released or not, and their shift state), errno, and *)
(* a record of the last call: what was called, what it returned to Lua,    *)
(* and which C library primitives it invoked.  One action per entry point  *)
(* of the binding; Lua runs them one at a time.                            *)
(***************************************************************************)
EXTENDS Integers, Sequences, FiniteSets, TLC

(***************************************************************************)
(* Bounds of the model.                                                    *)
(***************************************************************************)
\* number of handle userdata ever created
MaxHandles == 1
\* longest input string handed to a conversion
MaxLen == 3
\* size of the scratch chunk luaL_prepbuffer hands out (scaled down)
LUAL_BUFFERSIZE == 2

(***************************************************************************)
(* Program constants.                                                      *)
(***************************************************************************)
NULL == 0
E2BIG == 7
EBADF == 9
ENOMEM == 12
EINVAL == 22
EILSEQ == 84

\* luaopen_iconv, lines 195-198: the two exported error constants
ERROR_INCOMPLETE == EILSEQ
ERROR_INVALID == EINVAL

Handles == 1..MaxHandles

(***************************************************************************)
(* Lua values.  A string is a sequence of bytes; bytes and messages are    *)
(* both written as TLA+ strings so that any two Lua strings compare.       *)
(***************************************************************************)
LuaNil == [type |-> "nil", s |-> <<>>, n |-> 0]
LuaString(s) == [type |-> "string", s |-> s, n |-> 0]
LuaInteger(n) == [type |-> "number", s |-> <<>>, n |-> n]
LuaUserdata(h) == [type |-> "userdata", s |-> <<>>, n |-> h]
LuaClosure(h) == [type |-> "function", s |-> <<>>, n |-> h]

\* strerror(3): the message of an error code, a one-piece string
strerror(e) ==
    CASE e = E2BIG -> <<"Argument list too long">>
      [] e = EBADF -> <<"Bad file descriptor">>
      [] e = ENOMEM -> <<"Cannot allocate memory">>
      [] e = EINVAL -> <<"Invalid argument">>
      [] e = EILSEQ -> <<"Invalid or incomplete multibyte or wide character">>
      [] OTHER -> <<"Success">>

InvalidHandleMsg == <<"invalid iconv handle">>

\* The Lua stack: lua_pushvalue (a positive index counts from the bottom,
\* a negative one from the top), and `return n`
lua_pushvalue(stack, idx) ==
    Append(stack, stack[IF idx > 0 THEN idx ELSE Len(stack) + 1 + idx])
lua_return(stack, n) == SubSeq(stack, Len(stack) - n + 1, Len(stack))

(***************************************************************************)
(* The C library.  The encoding tables are the library's, not the          *)
(* binding's; the model gives it one source encoding that has every        *)
(* feature the binding's loop has to cope with:                            *)
(*   "a"      a one-byte character written as one byte ("a" in the         *)
(*            initial shift state, "A" in the shifted state)               *)
(*   "w"      a one-byte character the target lacks: transliterated to two *)
(*            bytes and counted as a non-reversible conversion             *)
(*   "L" "a"  a two-byte character (lead byte, trail byte), written as one *)
(*            byte                                                         *)
(*   "S"      a shift sequence: toggles the shift state, writes nothing    *)
(* "L" followed by anything but "a" is an illegal sequence (EILSEQ); "L"   *)
(* as the last byte of the input is an incomplete one (EINVAL).            *)
(***************************************************************************)
Bytes == {"a", "w", "L", "S"}
InitialShift == 0

\* the encoding names the registry knows, and one it does not
KnownEncodings == {"UTF-8", "ISO-8859-1"}
EncodingNames == KnownEncodings \cup {"BOGUS"}

\* the registry accepts the pair
iconv_open_ok(tocode, fromcode) ==
    tocode \in KnownEncodings /\ fromcode \in KnownEncodings

\* (iconv_t)(-1), what iconv_open returns when it fails
ICONV_FAILED == -1

\* iconv_open(3): the new descriptor `fresh`, or (iconv_t)(-1) with
\* errno = EINVAL
iconv_open(tocode, fromcode, fresh) ==
    IF iconv_open_ok(tocode, fromcode) THEN fresh ELSE ICONV_FAILED

RECURSIVE SeqsUpTo(_)
SeqsUpTo(n) ==
    IF n = 0 THEN {<<>>}
    ELSE LET shorter == SeqsUpTo(n - 1)
         IN shorter \cup {Append(s, b) : s \in {t \in shorter : Len(t) = n - 1}, b \in Bytes}
Inputs == SeqsUpTo(MaxLen)

\* what one character is written as
CharOut(st, b) ==
    CASE b = "a" -> IF st = InitialShift THEN <<"a">> ELSE <<"A">>
      [] b = "w" -> <<"W1", "W2">>
      [] b = "L" -> <<"E">>
      [] OTHER -> <<>>

IconvResult(ret, err, st, inb, out, obleft) ==
    [ret |-> ret, err |-> err, st |-> st, inb |-> inb, out |-> out, obleft |-> obleft]

\* iconv(cd, &inbuf, &ibleft, &outbuf, &obleft): converts characters while
\* they fit.  ret is the number of non-reversible conversions, or -1 with
\* err the errno it sets; inb and obleft are the cursors as it leaves them,
\* out the bytes it wrote at outbuf, st the descriptor's shift state.
RECURSIVE iconv(_, _, _, _, _)
iconv(st, inb, obleft, out, nrev) ==
    IF inb = <<>> THEN IconvResult(nrev, 0, st, inb, out, obleft)
    ELSE LET b == Head(inb)
             w == CharOut(st, b)
             k == IF b = "L" THEN 2 ELSE 1
         IN CASE b = "S" -> iconv(1 - st, Tail(inb), obleft, out, nrev)
              [] b = "L" /\ Len(inb) = 1 -> IconvResult(-1, EINVAL, st, inb, out, obleft)
              [] b = "L" /\ Len(inb) > 1 /\ inb[2] # "a" ->
                    IconvResult(-1, EILSEQ, st, inb, out, obleft)
              [] OTHER ->
                    IF Len(w) > obleft
                    THEN IconvResult(-1, E2BIG, st, inb, out, obleft)
                    ELSE iconv(st, SubSeq(inb, k + 1, Len(inb)), obleft - Len(w),
                               out \o w, IF b = "w" THEN nrev + 1 ELSE nrev)

\* iconv(cd, NULL, NULL, NULL, NULL): back to the initial shift state
iconv_reset(st) == InitialShift

(***************************************************************************)
(* The record of one C library call made by a binding function: the        *)
(* primitive, the descriptor handed to it, the input and output room it    *)
(* was given, what it returned and wrote, and the descriptor's shift state *)
(* before and after.                                                       *)
(***************************************************************************)
Call(fn, d, inb, obleft, st0, r) ==
    [fn |-> fn, cd |-> d, inb |-> inb, obleft |-> obleft,
     ret |-> r.ret, err |-> r.err, out |-> r.out, st0 |-> st0, st |-> r.st,
     rest |-> r.inb]


\* errno after a run of Lua API and libc calls that may or may not have set
\* it (c = 0: they left it alone)
Clobbered(e, c) == IF c = 0 THEN e ELSE c
Clobbers == {0, ENOMEM}

(***************************************************************************)
(* luaL_Buffer.  B is the bytes added so far.  luaL_prepbuffer hands out   *)
(* LUAL_BUFFERSIZE bytes of room at the end of B without changing B;       *)
(* luaL_addsize(B, n) adds the n bytes that sit in that room.  `written`   *)
(* is what iconv put there; room it did not write holds junk.              *)
(***************************************************************************)
luaL_buffinit == <<>>

\* bug: the room handed out at the start of the buffer, over what was added
luaL_addsize_Restart(B, written, n) ==
    [i \in 1..n |-> IF i <= Len(written) THEN written[i] ELSE "junk"]

luaL_addsize(B, written, n) ==
    B \o [i \in 1..n |-> IF i <= Len(written) THEN written[i] ELSE "junk"]

\* bug: the whole room added, written or not
AddedSize_WholeRoom(size, obleft) == size

\* line 96: the second argument of luaL_addsize
AddedSize(size, obleft) == size - obleft

\* bug: the room left by the call that failed kept for the retry
RoomAfterE2BIG_Stale(obleft) == obleft

\* lines 99-100: the output room after an E2BIG
RoomAfterE2BIG(obleft) == LUAL_BUFFERSIZE

\* bug: E2BIG handled like any other error
IsOutputFull_Never(e) == FALSE

\* line 98
IsOutputFull(e) == e = E2BIG

\* bug: the loop goes round again only after an error
LoopContinues_OnlyOnError(ret) == ret = -1

\* line 110: while (ret != 0)
LoopContinues(ret) == ret # 0

(***************************************************************************)
(* Liconv_convert, lines 94-109: one pass through the body of the do-while *)
(* loop.  `size` is obleft before the call; errno is read right after the  *)
(* failing call.  `failed` is the branch that returns from inside the      *)
(* loop.                                                                   *)
(***************************************************************************)
LoopBody(d, st, inb, B, obleft) ==
    LET size == obleft
        r == iconv(st, inb, obleft, <<>>, 0)
        full == r.ret = -1 /\ IsOutputFull(r.err)
    IN [failed |-> r.ret = -1 /\ ~IsOutputFull(r.err),
        full |-> full,
        ret |-> r.ret, errno |-> r.err, st |-> r.st, inb |-> r.inb,
        B |-> luaL_addsize(B, r.out, AddedSize(size, r.obleft)),
        obleft |-> IF full THEN RoomAfterE2BIG(r.obleft) ELSE r.obleft,
        call |-> Call("iconv", d, inb, obleft, st, r)]

RECURSIVE ConvertLoop(_, _, _, _, _, _)

\* bug: a while loop, which tests the input left before the first pass
ConvertLoop_WhileInput(d, st, inb, B, obleft, calls) ==
    IF inb = <<>>
    THEN [failed |-> FALSE, B |-> B, st |-> st, errno |-> 0, calls |-> calls]
    ELSE LET it == LoopBody(d, st, inb, B, obleft)
             calls1 == Append(calls, it.call)
         IN IF it.failed
            THEN [failed |-> TRUE, B |-> it.B, st |-> it.st, errno |-> it.errno,
                  calls |-> calls1]
            ELSE ConvertLoop(d, it.st, it.inb, it.B, it.obleft, calls1)

\* lines 93-110: the do-while loop
ConvertLoop(d, st, inb, B, obleft, calls) ==
    LET it == LoopBody(d, st, inb, B, obleft)
        calls1 == Append(calls, it.call)
    IN IF ~it.failed /\ LoopContinues(it.ret)
       THEN ConvertLoop(d, it.st, it.inb, it.B, it.obleft, calls1)
       ELSE [failed |-> it.failed, B |-> it.B, st |-> it.st,
             errno |-> IF it.failed THEN it.errno ELSE 0, calls |-> calls1]

\* lines 84-88: the values returned for a NULL descriptor
InvalidHandleReturn(stack) ==
    lua_return(stack \o <<LuaNil, LuaString(InvalidHandleMsg)>>, 2)

\* bug: the handle (stack slot 1) echoed instead of the buffer's string
ErrorReturn_EchoHandle(stack, B, e1, e2) ==
    LET s3 == stack \o <<LuaString(B), LuaNil, LuaString(strerror(e1))>>
    IN lua_return(Append(lua_pushvalue(s3, 1), LuaInteger(e2)), 4)

\* bug: the buffer's string addressed by an absolute stack index, which is
\* the string under Liconv's frame only
ErrorReturn_AbsoluteIndex(stack, B, e1, e2) ==
    LET s3 == stack \o <<LuaString(B), LuaNil, LuaString(strerror(e1))>>
    IN lua_return(Append(lua_pushvalue(s3, 3), LuaInteger(e2)), 4)

\* lines 102-107: the values returned when iconv failed.  e1 is errno as
\* strerror reads it, e2 errno as lua_pushinteger reads it.
ErrorReturn(stack, B, e1, e2) ==
    LET s1 == Append(stack, LuaString(B))
        s2 == Append(s1, LuaNil)
        s3 == Append(s2, LuaString(strerror(e1)))
        s4 == lua_pushvalue(s3, -3)
        s5 == Append(s4, LuaInteger(e2))
    IN lua_return(s5, 4)

\* lines 113-114
SuccessReturn(stack, B) == lua_return(Append(stack, LuaString(B)), 1)

\* bug: the NULL test dropped
IsInvalidHandle_Never(d) == FALSE

\* line 84
IsInvalidHandle(d) == d = NULL

\* bug: the reset forgotten
ResetShiftState_None(d, st) == <<>>

\* line 112: the library calls made after a successful loop
ResetShiftState(d, st) ==
    <<Call("iconv_reset", d, <<>>, 0, st,
           [ret |-> 0, err |-> 0, out |-> <<>>, st |-> iconv_reset(st),
            inb |-> <<>>])>>

\* bug: the descriptor reset before the error return too
Liconv_convert_ResetAlways(stack, d, st, inb) ==
    IF d = NULL
    THEN {[rets |-> InvalidHandleReturn(stack), st |-> st, calls |-> <<>>]}
    ELSE LET l == ConvertLoop(d, st, inb, luaL_buffinit, LUAL_BUFFERSIZE, <<>>)
             after == ResetShiftState(d, l.st)
         IN IF l.failed
            THEN {[rets |-> ErrorReturn(stack, l.B, l.errno, l.errno),
                   st |-> after[Len(after)].st, calls |-> l.calls \o after]}
            ELSE {[rets |-> SuccessReturn(stack, l.B), st |-> after[Len(after)].st,
                   calls |-> l.calls \o after]}

(***************************************************************************)
(* Liconv_convert(L, cd, inbuf, ibleft), lines 79-115: the outcomes it can *)
(* have.  stack is the Lua stack on entry, d the descriptor read from the  *)
(* userdata, st its shift state.  Between the failing iconv and the two    *)
(* reads of errno (lines 104 and 106) run luaL_pushresult, lua_pushnil,    *)
(* lua_pushstring and lua_pushvalue, which may allocate and so may set     *)
(* errno: c1 and c2 are what they did to it.                               *)
(***************************************************************************)
Liconv_convert(stack, d, st, inb) ==
    IF IsInvalidHandle(d)
    THEN {[rets |-> InvalidHandleReturn(stack), st |-> st, calls |-> <<>>]}
    ELSE LET l == ConvertLoop(d, st, inb, luaL_buffinit, LUAL_BUFFERSIZE, <<>>)
             after == ResetShiftState(d, l.st)
             st1 == IF after = <<>> THEN l.st ELSE after[Len(after)].st
         IN IF l.failed
            THEN {[rets |-> ErrorReturn(stack, l.B, Clobbered(l.errno, c1),
                                        Clobbered(Clobbered(l.errno, c1), c2)),
                   st |-> l.st, calls |-> l.calls] : c1 \in Clobbers, c2 \in Clobbers}
            ELSE {[rets |-> SuccessReturn(stack, l.B), st |-> st1,
                   calls |-> l.calls \o after]}

(***************************************************************************)
(* Liconv_close, lines 69-77.  rc is what iconv_close returns if called.   *)
(***************************************************************************)
\* bugs: the NULL test dropped; the release forgotten
CloseCallsRelease_Unguarded(d) == TRUE
CloseCallsRelease_Never(d) == FALSE

\* line 71, left operand: is iconv_close called at all
CloseCallsRelease(d) == d # NULL

\* bugs: the pointer never cleared; the pointer cleared whatever iconv_close said
CloseNewCd_KeepPointer(d, rc) == d
CloseNewCd_AlwaysNull(d, rc) == NULL

\* lines 71-75: the userdata's content afterwards
CloseNewCd(d, rc) == IF d # NULL /\ rc = 0 THEN NULL ELSE d

(***************************************************************************)
(* The state.                                                              *)
(***************************************************************************)
VARIABLES
    kind,         \* kind[h]: "none" (not created), "handle" (from new), "closure" (upvalue of a converter)
    alive,        \* alive[h]: the userdata has not been collected
    cd,           \* cd[h]: the iconv_t stored in userdata h, or NULL
    desc,         \* desc[d]: the C library's descriptor d: "none", "open" or "released"
    shift,        \* shift[d]: the shift state of descriptor d
    last,         \* the call into the binding that has just returned: [op, h, inp],
                  \* with pre, the handle as the call found it
    rets,         \* the values it returned to Lua
    calls,        \* the C library calls it made, in order
    closeCalled,  \* history: Liconv_close has been called on h
    lastOk,       \* history: the last conversion on h succeeded
    loop,         \* a Liconv_convert frame inside its do-while loop: its locals
    list          \* a Liconvlist frame: its Lua stack, and (history) the names
                  \* iconvlist has delivered and the number of callbacks

vars == <<kind, alive, cd, desc, shift, last, rets, calls, closeCalled, lastOk,
          loop, list>>

\* the frames followed statement by statement
frames == <<loop, list>>

\* no such frame
NoLoop == [pc |-> "none", st |-> InitialShift, inb |-> <<>>, B |-> <<>>,
           obleft |-> 0, errno |-> 0, retried |-> FALSE]
NoList == [pc |-> "none", stack |-> <<>>, delivered |-> <<>>, callbacks |-> 0]

\* the handle h as a call finds it
Pre(h) == [cd |-> cd[h], desc |-> desc[h], shift |-> shift[h],
           closeCalled |-> closeCalled[h], lastOk |-> lastOk[h]]
NoPre == [cd |-> NULL, desc |-> "none", shift |-> InitialShift,
          closeCalled |-> FALSE, lastOk |-> FALSE]
NoCall == [op |-> "none", h |-> 0, inp |-> <<>>, pre |-> NoPre]

Init ==
    /\ kind = [h \in Handles |-> "none"]
    /\ alive = [h \in Handles |-> FALSE]
    /\ cd = [h \in Handles |-> NULL]
    /\ desc = [h \in Handles |-> "none"]
    /\ shift = [h \in Handles |-> InitialShift]
    /\ last = NoCall
    /\ rets = <<>>
    /\ calls = <<>>
    /\ closeCalled = [h \in Handles |-> FALSE]
    /\ lastOk = [h \in Handles |-> FALSE]
    /\ loop = NoLoop
    /\ list = NoList

\* Lua is between two calls into the binding
Idle == last.op = "none"

\* the userdata lua_newuserdata hands out next
FreeSlot(h) == kind[h] = "none" /\ \A g \in Handles : g < h => kind[g] # "none"

OpenCall(tocode, fromcode, d) ==
    [fn |-> "iconv_open", cd |-> d, inb |-> <<tocode, fromcode>>, obleft |-> 0,
     ret |-> IF d = ICONV_FAILED THEN -1 ELSE 0,
     err |-> IF d = ICONV_FAILED THEN EINVAL ELSE 0,
     out |-> <<>>, st0 |-> InitialShift, st |-> InitialShift, rest |-> <<>>]

\* bug: the descriptor tested against NULL
OpenSucceeded_NullTest(d) == d # NULL

\* line 58
OpenSucceeded(d) == d # ICONV_FAILED

(***************************************************************************)
(* Liconv_new, lines 54-67, creating userdata h when iconv_open succeeds.  *)
(* k is "handle" for iconv.new and "closure" for the module call, which    *)
(* wraps the userdata in a closure (Liconv_open, lines 131-138).           *)
(***************************************************************************)
Liconv_new(h, tocode, fromcode, k, op) ==
    \E d \in {iconv_open(tocode, fromcode, h)} :
       /\ last' = [op |-> op, h |-> h, inp |-> <<tocode, fromcode>>, pre |-> Pre(h)]
       /\ calls' = <<OpenCall(tocode, fromcode, d)>>
       /\ desc' = [g \in Handles |-> IF g = d THEN "open" ELSE desc[g]]
       /\ shift' = [g \in Handles |-> IF g = d THEN InitialShift ELSE shift[g]]
       /\ UNCHANGED <<closeCalled, lastOk, frames>>
       /\ IF OpenSucceeded(d)
          THEN /\ kind' = [kind EXCEPT ![h] = k]
               /\ alive' = [alive EXCEPT ![h] = TRUE]
               /\ cd' = [cd EXCEPT ![h] = d]
               /\ rets' = <<IF k = "handle" THEN LuaUserdata(h) ELSE LuaClosure(h)>>
          ELSE /\ rets' = <<LuaNil, LuaString(strerror(EINVAL))>>
               /\ UNCHANGED <<kind, alive, cd>>

\* iconv.new(to, from)
New(tocode, fromcode) ==
    /\ Idle
    /\ \E h \in Handles : FreeSlot(h) /\ Liconv_new(h, tocode, fromcode, "handle", "new")

\* iconv(to, from): Liconv_open
Open(tocode, fromcode) ==
    /\ Idle
    /\ \E h \in Handles : FreeSlot(h) /\ Liconv_new(h, tocode, fromcode, "closure", "open")

(***************************************************************************)
(* The two entry points of a conversion: Liconv (lines 117-122), called    *)
(* with the userdata and the input on the stack, and Liconv_closure (lines *)
(* 124-129), called with the input alone.                                  *)
(***************************************************************************)
\* the Lua stack on entry: Liconv gets (handle, input), Liconv_closure (input)
EntryStack(op, h, inp) ==
    IF op = "iconv" THEN <<LuaUserdata(h), LuaString(inp)>> ELSE <<LuaString(inp)>>

DoConvert(h, inp, stack, op) ==
    \E r \in Liconv_convert(stack, cd[h], shift[h], inp) :
       /\ last' = [op |-> op, h |-> h, inp |-> inp, pre |-> Pre(h)]
       /\ rets' = r.rets
       /\ calls' = r.calls
       /\ shift' = [shift EXCEPT ![h] = r.st]
       /\ lastOk' = [lastOk EXCEPT ![h] = Len(r.rets) = 1]
       /\ UNCHANGED <<kind, alive, cd, desc, closeCalled, frames>>

Liconv(h, inp) ==
    /\ Idle
    /\ kind[h] = "handle" /\ alive[h]
    /\ DoConvert(h, inp, EntryStack("iconv", h, inp), "iconv")

Liconv_closure(h, inp) ==
    /\ Idle
    /\ kind[h] = "closure" /\ alive[h]
    /\ DoConvert(h, inp, EntryStack("closure", h, inp), "closure")

(***************************************************************************)
(* Liconv_close, lines 69-77, on userdata h.  rc is the value iconv_close  *)
(* returns if it is called: 0 and the descriptor is gone, or -1 and the    *)
(* descriptor is left as it was.                                           *)
(***************************************************************************)
CloseCall(d, rc) ==
    [fn |-> "iconv_close", cd |-> d, inb |-> <<>>, obleft |-> 0,
     ret |-> rc, err |-> IF rc = 0 THEN 0 ELSE EBADF,
     out |-> <<>>, st0 |-> InitialShift, st |-> InitialShift, rest |-> <<>>]

Liconv_close(h, rc, op) ==
    /\ last' = [op |-> op, h |-> h, inp |-> <<>>, pre |-> Pre(h)]
    /\ rets' = <<>>
    /\ closeCalled' = [closeCalled EXCEPT ![h] = TRUE]
    /\ cd' = [cd EXCEPT ![h] = CloseNewCd(cd[h], rc)]
    /\ IF CloseCallsRelease(cd[h])
       THEN /\ calls' = <<CloseCall(cd[h], rc)>>
            /\ desc' = [d \in Handles |-> IF d = cd[h] /\ rc = 0 THEN "released" ELSE desc[d]]
            /\ shift' = [d \in Handles |-> IF d = cd[h] /\ rc = 0 THEN InitialShift ELSE shift[d]]
       ELSE /\ calls' = <<>>
            /\ UNCHANGED <<desc, shift>>
    /\ UNCHANGED <<kind, frames>>

\* iconv.delete(h), or the __gc metamethod called by hand
Delete(h, rc, op) ==
    /\ Idle
    /\ kind[h] = "handle" /\ alive[h]
    /\ Liconv_close(h, rc, op)
    /\ UNCHANGED <<alive, lastOk>>

\* the collector: runs __gc on an unreachable userdata once, then frees it
Finalize(h, rc) ==
    /\ Idle
    /\ kind[h] # "none" /\ alive[h]
    /\ Liconv_close(h, rc, "finalize")
    /\ alive' = [alive EXCEPT ![h] = FALSE]
    /\ lastOk' = [lastOk EXCEPT ![h] = FALSE]

\* the Lua caller takes the returned values; the C function's frame is gone
Return ==
    /\ ~Idle
    /\ last' = NoCall
    /\ rets' = <<>>
    /\ calls' = <<>>
    /\ UNCHANGED <<kind, alive, cd, desc, shift, closeCalled, lastOk, frames>>

Next ==
    \/ \E t \in EncodingNames, f \in EncodingNames : New(t, f)
    \/ \E t \in EncodingNames, f \in EncodingNames : Open(t, f)
    \/ \E h \in Handles, inp \in Inputs : Liconv(h, inp)
    \/ \E h \in Handles, inp \in Inputs : Liconv_closure(h, inp)
    \/ \E h \in Handles, rc \in {0, -1}, op \in {"delete", "__gc"} : Delete(h, rc, op)
    \/ \E h \in Handles, rc \in {0, -1} : Finalize(h, rc)
    \/ Return

Spec == Init /\ [][Next]_vars

(***************************************************************************)
(* Liconv_convert statement by statement: one call of handle.convert on an *)
(* open handle, from line 92 (the buffer set up, the first chunk handed    *)
(* out) to its return.  The input and the shift state the descriptor is in *)
(* are chosen by the initial state.                                        *)
(***************************************************************************)
ShiftStates == {InitialShift, 1 - InitialShift}

InitLoop ==
    /\ kind = [h \in Handles |-> IF h = 1 THEN "handle" ELSE "none"]
    /\ alive = [h \in Handles |-> h = 1]
    /\ cd = [h \in Handles |-> IF h = 1 THEN 1 ELSE NULL]
    /\ desc = [h \in Handles |-> IF h = 1 THEN "open" ELSE "none"]
    /\ closeCalled = [h \in Handles |-> FALSE]
    /\ lastOk = [h \in Handles |-> FALSE]
    /\ rets = <<>>
    /\ calls = <<>>
    /\ list = NoList
    /\ \E st \in ShiftStates, inp \in Inputs :
          /\ shift = [h \in Handles |-> IF h = 1 THEN st ELSE InitialShift]
          /\ last = [op |-> "iconv", h |-> 1, inp |-> inp,
                     pre |-> [cd |-> 1, desc |-> "open", shift |-> st,
                              closeCalled |-> FALSE, lastOk |-> FALSE]]
          /\ loop = [pc |-> "body", st |-> st, inb |-> inp, B |-> luaL_buffinit,
                     obleft |-> LUAL_BUFFERSIZE, errno |-> 0, retried |-> FALSE]

\* lines 94-110: one pass through the loop body and the loop test
LoopStep ==
    /\ loop.pc = "body"
    /\ LET it == LoopBody(cd[last.h], loop.st, loop.inb, loop.B, loop.obleft)
       IN loop' = [pc |-> IF it.failed THEN "error"
                          ELSE IF LoopContinues(it.ret) THEN "body" ELSE "reset",
                   st |-> it.st, inb |-> it.inb, B |-> it.B, obleft |-> it.obleft,
                   errno |-> IF it.ret = -1 THEN it.errno ELSE loop.errno,
                   retried |-> loop.retried \/ it.full]
    /\ UNCHANGED <<kind, alive, cd, desc, shift, last, rets, calls, closeCalled,
                   lastOk, list>>

\* lines 102-107: the return from inside the loop
LoopError ==
    /\ loop.pc = "error"
    /\ \E c1 \in Clobbers, c2 \in Clobbers :
          rets' = ErrorReturn(EntryStack(last.op, last.h, last.inp), loop.B,
                              Clobbered(loop.errno, c1),
                              Clobbered(Clobbered(loop.errno, c1), c2))
    /\ shift' = [shift EXCEPT ![cd[last.h]] = loop.st]
    /\ loop' = [loop EXCEPT !.pc = "returned"]
    /\ UNCHANGED <<kind, alive, cd, desc, last, calls, closeCalled, lastOk, list>>

\* lines 112-114: the reset and the return after the loop
LoopSuccess ==
    /\ loop.pc = "reset"
    /\ rets' = SuccessReturn(EntryStack(last.op, last.h, last.inp), loop.B)
    /\ LET after == ResetShiftState(cd[last.h], loop.st)
       IN shift' = [shift EXCEPT ![cd[last.h]] =
                       IF after = <<>> THEN loop.st ELSE after[Len(after)].st]
    /\ loop' = [loop EXCEPT !.pc = "returned"]
    /\ UNCHANGED <<kind, alive, cd, desc, last, calls, closeCalled, lastOk, list>>

NextLoop == LoopStep \/ LoopError \/ LoopSuccess

\* the C function keeps running until it returns
SpecLoop == InitLoop /\ [][NextLoop]_vars /\ WF_vars(NextLoop)

(***************************************************************************)
(* iconv.list, lines 145-174 (built when the library has iconvlist).       *)
(* Liconvlist pushes a new table and the counter 1 and hands push_one to   *)
(* iconvlist, which calls it once per encoding with the group of names of  *)
(* that encoding; Liconvlist then removes the counter and returns the      *)
(* table.  A table is a function from its keys to its values.              *)
(***************************************************************************)
MaxCallbacks == 3
MaxNames == 2

LuaTable(t) == [type |-> "table", t |-> t]

\* lua_remove(L, -1)
lua_remove_top(stack) == SubSeq(stack, 1, Len(stack) - 1)

\* lua_settable(L, idx), idx < 0: t[k] = v for the key k under the top and
\* the value v at the top, both popped
lua_settable(stack, idx) ==
    LET n == Len(stack)
        ti == n + 1 + idx
        k == stack[n - 1].n
        tb == stack[ti].t
        t1 == [x \in (DOMAIN tb) \cup {k} |-> IF x = k THEN stack[n] ELSE tb[x]]
    IN [SubSeq(stack, 1, n - 2) EXCEPT ![ti] = LuaTable(t1)]

\* bug: the counter not advanced
NextIndex_Same(n) == n

\* line 154: n++
NextIndex(n) == n + 1

\* lines 152-158: the for loop of push_one; n is the C local
RECURSIVE push_names(_, _, _)
push_names(stack, names, n) ==
    IF names = <<>> THEN [stack |-> stack, n |-> n]
    ELSE LET s1 == Append(stack, LuaInteger(n))
             s2 == Append(s1, LuaString(<<Head(names)>>))
         IN push_names(lua_settable(s2, -3), Tail(names), NextIndex(n))

\* lines 145-162: the stack as push_one(cnt, names, L) leaves it
push_one(stack, names) ==
    LET n == stack[Len(stack)].n
        r == push_names(lua_remove_top(stack), names, n)
    IN Append(r.stack, LuaInteger(r.n))

\* the groups of names iconvlist may hand to one callback
NameGroups == UNION {[1..k -> KnownEncodings] : k \in 0..MaxNames}

\* lines 165-169: the table and the counter pushed, iconvlist entered
Liconvlist_enter ==
    /\ Idle /\ list.pc = "none"
    /\ list' = [pc |-> "iconvlist", stack |-> <<LuaTable(<<>>), LuaInteger(1)>>,
                delivered |-> <<>>, callbacks |-> 0]
    /\ UNCHANGED <<kind, alive, cd, desc, shift, last, rets, calls, closeCalled,
                   lastOk, loop>>

\* iconvlist calls push_one with the names of the next encoding
push_one_call(names) ==
    /\ list.pc = "iconvlist" /\ list.callbacks < MaxCallbacks
    /\ list' = [list EXCEPT !.stack = push_one(list.stack, names),
                            !.delivered = list.delivered \o names,
                            !.callbacks = list.callbacks + 1]
    /\ UNCHANGED <<kind, alive, cd, desc, shift, last, rets, calls, closeCalled,
                   lastOk, loop>>

\* lines 171-173: iconvlist has returned; the counter removed, one value
\* returned
Liconvlist_leave ==
    /\ list.pc = "iconvlist"
    /\ list' = [list EXCEPT !.pc = "returned", !.stack = lua_remove_top(list.stack)]
    /\ rets' = lua_return(lua_remove_top(list.stack), 1)
    /\ last' = [op |-> "list", h |-> 0, inp |-> <<>>, pre |-> NoPre]
    /\ UNCHANGED <<kind, alive, cd, desc, shift, calls, closeCalled, lastOk, loop>>

\* the Lua caller takes the table
ListReturn ==
    /\ list.pc = "returned"
    /\ list' = NoList
    /\ last' = NoCall
    /\ rets' = <<>>
    /\ UNCHANGED <<kind, alive, cd, desc, shift, calls, closeCalled, lastOk, loop>>

NextList ==
    \/ Liconvlist_enter
    \/ \E names \in NameGroups : push_one_call(names)
    \/ Liconvlist_leave
    \/ ListReturn

SpecList == Init /\ [][NextList]_vars

(***************************************************************************)
(* Vocabulary of the properties.                                           *)
(***************************************************************************)
ConvertOps == {"iconv", "closure"}
CloseOps == {"delete", "__gc", "finalize"}

\* the call that has just returned is a conversion / a close on handle h
ConvertReturned(h) == last.op \in ConvertOps /\ last.h = h
CloseReturned(h) == last.op \in CloseOps /\ last.h = h

\* the HandleClosed outcome: nil and the fixed message, nothing else
HandleClosedOutcome == rets = <<LuaNil, LuaString(InvalidHandleMsg)>>

\* the library primitives a call handed a descriptor to
Transcodings(cs) == {i \in DOMAIN cs : cs[i].fn \in {"iconv", "iconv_reset"}}
Releases(cs) == {i \in DOMAIN cs : cs[i].fn = "iconv_close"}

(***************************************************************************)
(* C1 as stated: a conversion on a handle on which close (delete or __gc)  *)
(* has been called returns the HandleClosed outcome and hands no           *)
(* descriptor to the transcoding primitive.  Fails: a close whose          *)
(* iconv_close failed leaves the handle open.                              *)
(***************************************************************************)
C1_ConvertAfterAnyClose ==
    \A h \in Handles :
        ConvertReturned(h) /\ closeCalled[h] =>
            HandleClosedOutcome /\ Transcodings(calls) = {}

(***************************************************************************)
(* C1 amended: a conversion on a handle whose descriptor a close call has  *)
(* released returns the HandleClosed outcome and hands no descriptor to    *)
(* the transcoding primitive.                                              *)
(***************************************************************************)
C1_ConvertAfterRelease ==
    \A h \in Handles :
        ConvertReturned(h) /\ desc[h] = "released" =>
            HandleClosedOutcome /\ Transcodings(calls) = {}

C1_Witness ==
    \E h \in Handles :
        /\ ConvertReturned(h) /\ desc[h] = "released" /\ closeCalled[h]
        /\ last.inp # <<>>
        /\ HandleClosedOutcome

(***************************************************************************)
(* C2: once iconv_close has succeeded for a handle, no later close call    *)
(* (delete, __gc by hand, the finalizer) invokes iconv_close again: every  *)
(* such call makes no library call, returns nothing and leaves the handle  *)
(* closed.                                                                 *)
(***************************************************************************)
C2_NoSecondRelease ==
    \A h \in Handles :
        /\ \A i \in Releases(calls) :
               calls[i].cd = h => last.h = h /\ last.pre.desc = "open"
        /\ CloseReturned(h) /\ last.pre.desc = "released" =>
               /\ calls = <<>>
               /\ rets = <<>>
               /\ cd[h] = NULL
               /\ desc[h] = "released"

\* a close call that found the handle already closed has returned
C2_Witness ==
    \E h \in Handles :
        /\ CloseReturned(h) /\ last.pre.desc = "released" /\ last.pre.closeCalled
        /\ calls = <<>> /\ cd[h] = NULL

(***************************************************************************)
(* C3 as stated: once close has been called on a handle (explicitly or by  *)
(* the finalizer) its descriptor has been released.  Fails: iconv_close    *)
(* can fail, and the finalizer runs once.                                  *)
(***************************************************************************)
C3_ReleasedOnceCloseCalled ==
    \A h \in Handles : closeCalled[h] => desc[h] = "released"

(***************************************************************************)
(* C3 amended: when a close call (explicit or the finalizer's) returns,    *)
(* the descriptor has been released, or this call handed it to iconv_close *)
(* and iconv_close failed; a handle is collected with its descriptor       *)
(* unreleased only in that second case.                                    *)
(***************************************************************************)
C3_ReleasedUnlessReleaseFailed ==
    \A h \in Handles :
        CloseReturned(h) =>
            \/ desc[h] = "released" /\ cd[h] = NULL
            \/ /\ desc[h] = "open"
               /\ Len(calls) = 1
               /\ calls[1].fn = "iconv_close" /\ calls[1].cd = h /\ calls[1].ret # 0

\* the finalizer has released the descriptor of a handle nobody closed
C3_Witness ==
    \E h \in Handles :
        /\ last.op = "finalize" /\ last.h = h /\ ~alive[h]
        /\ desc[h] = "released"
        /\ Releases(calls) # {}

(***************************************************************************)
(* Vocabulary of the conversion properties.                                *)
(***************************************************************************)
\* the conversion that has just returned ended with a library failure: its
\* last iconv invocation returned -1 (with an errno other than E2BIG)
LibraryFailure ==
    /\ last.op \in ConvertOps
    /\ calls # <<>>
    /\ calls[Len(calls)].fn = "iconv" /\ calls[Len(calls)].ret = -1

\* ... ended with success: the loop was left and the shift state reset
Succeeded == last.op \in ConvertOps /\ last.pre.cd # NULL /\ ~LibraryFailure

FailingCall == calls[Len(calls)]

\* the bytes the iconv invocations of a call wrote, in order
RECURSIVE Written(_)
Written(cs) ==
    IF cs = <<>> THEN <<>>
    ELSE (IF Head(cs).fn = "iconv" THEN Head(cs).out ELSE <<>>) \o Written(Tail(cs))

\* one invocation of the primitive with room for any output
OneShot(st, inp) == iconv(st, inp, 2 * Len(inp) + 1, <<>>, 0)

(***************************************************************************)
(* C4 as stated: a conversion that fails on an incomplete multi-byte       *)
(* sequence returns a code equal to ERROR_INCOMPLETE, and one that fails   *)
(* on an illegal sequence returns a code equal to ERROR_INVALID (whenever  *)
(* the code returned is the one the failing invocation set).  Fails:       *)
(* luaopen_iconv exports EILSEQ as ERROR_INCOMPLETE and EINVAL as          *)
(* ERROR_INVALID.                                                          *)
(***************************************************************************)
C4_ConstantsMatchCodes ==
    LibraryFailure /\ Len(rets) = 4 /\ rets[4].n = FailingCall.err =>
        /\ FailingCall.inb = <<"L">> => rets[4].n = ERROR_INCOMPLETE
        /\ Len(FailingCall.inb) > 1 => rets[4].n = ERROR_INVALID

(***************************************************************************)
(* C5 as stated: the error result of a failed conversion is (nil, message, *)
(* handle object, code).  Fails: the third value is the string of the      *)
(* buffer.                                                                 *)
(***************************************************************************)
C5_ThirdIsHandle ==
    LibraryFailure =>
        /\ Len(rets) = 4
        /\ rets[1] = LuaNil
        /\ rets[2].type = "string"
        /\ rets[3] = LuaUserdata(last.h)
        /\ rets[4].type = "number"

(***************************************************************************)
(* C5 amended: the error result of a failed conversion is the 4-tuple      *)
(* (nil, message, partial output, code): the third value is a string, the  *)
(* one luaL_pushresult made of the buffer, and never the handle object.    *)
(***************************************************************************)
C5_ThirdIsPartialOutput ==
    LibraryFailure =>
        /\ Len(rets) = 4
        /\ rets[1] = LuaNil
        /\ rets[2].type = "string"
        /\ \E e \in {EINVAL, EILSEQ, ENOMEM} : rets[2].s = strerror(e)
        /\ rets[3].type = "string"
        /\ \A i \in DOMAIN rets[3].s :
               \E j \in DOMAIN calls : \E k \in DOMAIN calls[j].out :
                   calls[j].out[k] = rets[3].s[i]
        /\ rets[4].type = "number"

\* a failed conversion called as iconv.iconv(h, input), the handle in slot 1
C5_Witness ==
    /\ LibraryFailure /\ last.op = "iconv"
    /\ Len(rets) = 4 /\ rets[3].type = "string" /\ rets[3].s # <<>>

(***************************************************************************)
(* C6: when a conversion ends with a library failure, the error result     *)
(* carries exactly the bytes its iconv invocations wrote, in order, the    *)
(* failing invocation's included.                                          *)
(***************************************************************************)
C6_PartialOutputKept ==
    LibraryFailure => Len(rets) = 4 /\ rets[3] = LuaString(Written(calls))

\* a failure after an E2BIG retry, the failing invocation having written
C6_Witness ==
    /\ LibraryFailure
    /\ Len(calls) >= 2
    /\ calls[1].out # <<>>
    /\ FailingCall.out # <<>>
    /\ rets[3].s = calls[1].out \o FailingCall.out

(***************************************************************************)
(* C7: for every input that one invocation of the primitive with unbounded *)
(* room converts, the conversion returns, as its only value, the bytes     *)
(* that invocation writes: nothing is lost, repeated or reordered where a  *)
(* chunk ends.                                                             *)
(***************************************************************************)
C7_ChunkingInvisible ==
    \A h \in Handles :
        ConvertReturned(h) /\ last.pre.cd # NULL =>
            LET one == OneShot(last.pre.shift, last.inp)
            IN one.ret # -1 => rets = <<LuaString(one.out)>>

\* an output of exactly two chunks, the first chunk left partly unfilled
\* because the next character did not fit
C7_Witness ==
    /\ Succeeded
    /\ Len(rets[1].s) = 2 * LUAL_BUFFERSIZE
    /\ calls[1].err = E2BIG
    /\ Len(calls[1].out) < calls[1].obleft
    /\ Len(calls[1].out) > 0

\* an output of exactly two chunks, each filled to its last byte
C7_WitnessExactFill ==
    /\ Succeeded
    /\ Len(rets[1].s) = 2 * LUAL_BUFFERSIZE
    /\ calls[1].err = E2BIG
    /\ Len(calls[1].out) = LUAL_BUFFERSIZE

(***************************************************************************)
(* C8: a conversion that follows a successful conversion on the same       *)
(* handle starts from the initial shift state and returns what the same    *)
(* call returns on a freshly opened handle.                                *)
(***************************************************************************)
C8_ReusedHandle ==
    \A h \in Handles :
        /\ lastOk[h] => shift[h] = InitialShift
        /\ ConvertReturned(h) /\ last.pre.lastOk /\ last.pre.cd # NULL =>
               /\ last.pre.shift = InitialShift
               /\ calls[1].st0 = InitialShift
               /\ rets \in {r.rets : r \in Liconv_convert(EntryStack(last.op, h, last.inp),
                                                         last.pre.cd, InitialShift, last.inp)}

\* a successful conversion that followed a successful one, and whose loop
\* left the descriptor in the shifted state
C8_Witness ==
    \E h \in Handles :
        /\ ConvertReturned(h) /\ last.pre.lastOk /\ Succeeded
        /\ calls[Len(calls)].fn = "iconv_reset"
        /\ calls[Len(calls)].st0 # InitialShift
        /\ shift[h] = InitialShift

(***************************************************************************)
(* C9: when close is called on an open handle and iconv_close fails, the   *)
(* handle is not marked closed and nothing is returned or raised; and a    *)
(* close call on a handle an earlier close failed to release hands the     *)
(* descriptor to iconv_close again.                                        *)
(***************************************************************************)
C9_FailedReleaseRetryable ==
    \A h \in Handles :
        CloseReturned(h) /\ last.pre.cd # NULL =>
            /\ Len(calls) = 1
            /\ calls[1].fn = "iconv_close" /\ calls[1].cd = last.pre.cd
            /\ calls[1].ret # 0 =>
                   /\ cd[h] = last.pre.cd
                   /\ desc[h] = "open"
                   /\ rets = <<>>

\* a second close call on a handle whose first release failed, made and
\* failed again
C9_Witness ==
    \E h \in Handles :
        /\ CloseReturned(h) /\ last.pre.closeCalled /\ last.pre.cd # NULL
        /\ calls # <<>> /\ calls[1].ret # 0
        /\ cd[h] # NULL

(***************************************************************************)
(* C10: a conversion on a handle whose descriptor is NULL returns exactly   *)
(* nil and "invalid iconv handle", having called neither iconv nor the     *)
(* reset; a conversion that ends with a library failure returns four       *)
(* values, the last a number, so the two are told apart.                   *)
(***************************************************************************)
C10_HandleClosedDistinguished ==
    \A h \in Handles :
        /\ ConvertReturned(h) /\ last.pre.cd = NULL =>
               /\ rets = <<LuaNil, LuaString(InvalidHandleMsg)>>
               /\ calls = <<>>
               /\ shift[h] = last.pre.shift
        /\ ConvertReturned(h) /\ LibraryFailure =>
               /\ last.pre.cd # NULL
               /\ Len(rets) = 4
               /\ rets[4].type = "number"
               /\ rets[4].n # 0

C10_Witness ==
    \E h \in Handles :
        /\ ConvertReturned(h) /\ last.pre.cd = NULL /\ last.inp # <<>>
        /\ Len(rets) = 2 /\ calls = <<>>

(***************************************************************************)
(* C11: iconv.new returns an open handle exactly when the registry accepts *)
(* the pair: for an accepted pair one userdata holding an open descriptor; *)
(* for a rejected pair nil and the message of errno, no numeric code, no   *)
(* userdata and no descriptor.                                             *)
(***************************************************************************)
C11_OpenIffAccepted ==
    \A h \in Handles :
        last.op = "new" /\ last.h = h =>
            IF iconv_open_ok(last.inp[1], last.inp[2])
            THEN /\ rets = <<LuaUserdata(h)>>
                 /\ kind[h] = "handle" /\ alive[h]
                 /\ cd[h] \in Handles /\ desc[cd[h]] = "open"
                 /\ shift[cd[h]] = InitialShift
            ELSE /\ Len(rets) = 2
                 /\ rets[1] = LuaNil
                 /\ rets[2] = LuaString(strerror(calls[1].err))
                 /\ \A i \in DOMAIN rets : rets[i].type \notin {"number", "userdata"}
                 /\ kind[h] = "none" /\ cd[h] = NULL
                 /\ \A g \in Handles : desc[g] = "open" => kind[g] # "none"

\* a pair the registry rejects: a known target, an unknown source
C11_Witness ==
    /\ last.op = "new"
    /\ last.inp[1] \in KnownEncodings /\ last.inp[2] \notin KnownEncodings
    /\ Len(rets) = 2 /\ rets[1] = LuaNil

\* a pair the registry accepts
C11_WitnessAccepted ==
    \E h \in Handles : last.op = "new" /\ rets = <<LuaUserdata(h)>> /\ desc[h] = "open"

(***************************************************************************)
(* C12: the function iconv.open returns is handle.convert on a fixed       *)
(* handle.  Every call through either entry point returns what the other   *)
(* entry point returns on the same descriptor, shift state and input       *)
(* (result values, library calls and the shift state left behind, so the   *)
(* equality carries over to every sequence of inputs); iconv.open returns  *)
(* one function on success, and nil and a message with no function when    *)
(* iconv_open fails.                                                       *)
(***************************************************************************)
OtherEntry(op) == IF op = "iconv" THEN "closure" ELSE "iconv"

C12_ClosureIsConvert ==
    \A h \in Handles :
        /\ ConvertReturned(h) =>
              \E r \in Liconv_convert(EntryStack(OtherEntry(last.op), h, last.inp),
                                      last.pre.cd, last.pre.shift, last.inp) :
                  r.rets = rets /\ r.calls = calls /\ r.st = shift[h]
        /\ last.op = "open" /\ last.h = h =>
              IF iconv_open_ok(last.inp[1], last.inp[2])
              THEN /\ rets = <<LuaClosure(h)>>
                   /\ kind[h] = "closure" /\ alive[h]
                   /\ cd[h] \in Handles /\ desc[cd[h]] = "open"
                   /\ shift[cd[h]] = InitialShift
              ELSE /\ rets = <<LuaNil, LuaString(strerror(calls[1].err))>>
                   /\ kind[h] = "none" /\ cd[h] = NULL

\* a later call through the function fails after converting some bytes
C12_Witness ==
    /\ last.op = "closure" /\ LibraryFailure
    /\ last.pre.shift # InitialShift
    /\ Len(rets) = 4 /\ rets[3].s # <<>>

\* iconv.open on a rejected pair
C12_WitnessRejected ==
    last.op = "open" /\ Len(rets) = 2 /\ rets[1] = LuaNil

(***************************************************************************)
(* C13: every call of convert on an open handle returns, provided each     *)
(* iconv call that reports E2BIG against a fresh chunk of LUAL_BUFFERSIZE  *)
(* bytes consumes at least one input byte.                                 *)
(***************************************************************************)
\* the iconv call the loop is about to make, if it is made against a fresh
\* full-size chunk and reports E2BIG, consumes input
FreshChunkProgress ==
    loop.pc = "body" /\ loop.obleft = LUAL_BUFFERSIZE =>
        LET r == iconv(loop.st, loop.inb, loop.obleft, <<>>, 0)
        IN r.ret = -1 /\ r.err = E2BIG => Len(r.inb) < Len(loop.inb)

C13_ConvertReturns == []FreshChunkProgress => <>(loop.pc = "returned")

\* a call that returned after retrying on a fresh chunk, all input consumed
C13_Witness ==
    /\ loop.pc = "returned" /\ loop.retried
    /\ Len(last.inp) = MaxLen /\ loop.inb = <<>>
    /\ Len(rets) = 1

\* the statement-by-statement frame returns what Liconv_convert returns
LoopIsConvert ==
    loop.pc = "returned" =>
        \E r \in Liconv_convert(EntryStack(last.op, last.h, last.inp),
                                last.pre.cd, last.pre.shift, last.inp) :
            r.rets = rets /\ r.st = shift[last.h]

(***************************************************************************)
(* C14: the shift state is reset on the success path only.  A call that    *)
(* returns the error tuple made no reset call, and leaves the descriptor   *)
(* in the shift state its failing iconv call left; a call that succeeds    *)
(* made exactly one reset call, its last; and every call starts from the   *)
(* shift state the descriptor was left in.                                 *)
(***************************************************************************)
Resets(cs) == {i \in DOMAIN cs : cs[i].fn = "iconv_reset"}

C14_ResetOnlyOnSuccess ==
    \A h \in Handles :
        ConvertReturned(h) /\ last.pre.cd # NULL =>
            /\ calls # <<>> /\ calls[1].fn = "iconv"
            /\ calls[1].st0 = last.pre.shift
            /\ Len(rets) = 4 =>
                  /\ Resets(calls) = {}
                  /\ calls[Len(calls)].ret = -1
                  /\ shift[last.pre.cd] = calls[Len(calls)].st
            /\ Len(rets) = 1 =>
                  /\ Resets(calls) = {Len(calls)}
                  /\ shift[last.pre.cd] = InitialShift

\* a call that starts in the shifted state an earlier failure left
C14_Witness ==
    /\ last.op \in ConvertOps /\ last.pre.cd # NULL
    /\ last.pre.shift # InitialShift /\ ~last.pre.lastOk
    /\ rets = <<LuaString(<<"A">>)>>

\* a failing call that leaves the descriptor shifted
C14_WitnessFailure ==
    /\ LibraryFailure /\ last.pre.shift = InitialShift
    /\ shift[last.pre.cd] # InitialShift
(***************************************************************************)
(* C15: E2BIG is never an error outcome.  After an iconv call that reports *)
(* E2BIG the bytes it wrote are in the result, and the next iconv call is  *)
(* made on the input it left, against a fresh chunk of LUAL_BUFFERSIZE     *)
(* bytes; no call of convert returns an error tuple whose code is E2BIG.   *)
(***************************************************************************)
OutputFull(c) == c.fn = "iconv" /\ c.ret = -1 /\ c.err = E2BIG

C15_OutputFullRetried ==
    \A h \in Handles :
        ConvertReturned(h) /\ last.pre.cd # NULL =>
            /\ \A i \in DOMAIN calls :
                  OutputFull(calls[i]) =>
                      /\ i < Len(calls)
                      /\ calls[i + 1].fn = "iconv"
                      /\ calls[i + 1].obleft = LUAL_BUFFERSIZE
                      /\ calls[i + 1].inb = calls[i].rest
                      /\ calls[i + 1].st0 = calls[i].st
            /\ rets[IF Len(rets) = 4 THEN 3 ELSE 1] = LuaString(Written(calls))
            /\ Len(rets) = 4 =>
                  /\ rets[4].n # E2BIG
                  /\ rets[2].s # strerror(E2BIG)

\* an E2BIG that wrote bytes, in a call that then failed on the input left
C15_Witness ==
    /\ last.op \in ConvertOps /\ Len(rets) = 4
    /\ \E i \in DOMAIN calls : OutputFull(calls[i]) /\ calls[i].out # <<>>
(***************************************************************************)
(* C16: when convert fails with a library error, the message and the       *)
(* numeric code of the error tuple both denote the errno the failing iconv *)
(* call set.  The code reads errno twice, at lines 104 and 106, after      *)
(* luaL_pushresult and after lua_pushstring, which may set it.             *)
(***************************************************************************)
C16_CodeIsFailingErrno ==
    LibraryFailure =>
        /\ rets[4] = LuaInteger(FailingCall.err)
        /\ rets[2] = LuaString(strerror(FailingCall.err))
(***************************************************************************)
(* C17: convert on an open handle with the empty input succeeds with the   *)
(* empty output: it calls iconv exactly once, which writes nothing, then   *)
(* resets the descriptor, and returns the empty string as its one result.  *)
(***************************************************************************)
C17_EmptyInput ==
    \A h \in Handles :
        ConvertReturned(h) /\ last.pre.cd # NULL /\ last.inp = <<>> =>
            /\ rets = <<LuaString(<<>>)>>
            /\ Len(calls) = 2
            /\ calls[1].fn = "iconv" /\ calls[1].inb = <<>>
            /\ calls[1].ret = 0 /\ calls[1].out = <<>>
            /\ calls[1].obleft = LUAL_BUFFERSIZE
            /\ calls[2].fn = "iconv_reset"
            /\ shift[last.pre.cd] = InitialShift

\* the empty input on a descriptor an earlier failure left shifted
C17_Witness ==
    /\ last.op \in ConvertOps /\ last.pre.cd # NULL /\ last.inp = <<>>
    /\ last.pre.shift # InitialShift
    /\ rets = <<LuaString(<<>>)>>
(***************************************************************************)
(* C18: convert returns success only when the whole input is consumed.     *)
(* The iconv calls of a successful call form a chain from the whole input  *)
(* to no input left, and the last of them returned 0; the loop is left     *)
(* right after the first call that returns 0; after a call that returns a  *)
(* positive count iconv is called once more, on no input, and that call    *)
(* writes nothing and returns 0.                                           *)
(***************************************************************************)
C18_SuccessConsumesAll ==
    \A h \in Handles :
        ConvertReturned(h) /\ last.pre.cd # NULL =>
            /\ calls[1].inb = last.inp
            /\ \A i \in DOMAIN calls :
                  calls[i].fn = "iconv" =>
                      /\ i > 1 => calls[i].inb = calls[i - 1].rest
                      /\ calls[i].ret = 0 => i + 1 = Len(calls) /\ calls[i].rest = <<>>
                      /\ calls[i].ret > 0 =>
                            /\ calls[i].rest = <<>>
                            /\ i < Len(calls)
                            /\ calls[i + 1].fn = "iconv"
                            /\ calls[i + 1].inb = <<>>
                            /\ calls[i + 1].out = <<>>
                            /\ calls[i + 1].ret = 0
            /\ Len(rets) = 1 =>
                  /\ Len(calls) >= 2
                  /\ calls[Len(calls) - 1].fn = "iconv"
                  /\ calls[Len(calls) - 1].ret = 0
                  /\ calls[Len(calls) - 1].rest = <<>>

\* a successful call one of whose iconv calls returned a positive count
C18_Witness ==
    /\ Succeeded /\ Len(rets) = 1
    /\ \E i \in DOMAIN calls : calls[i].fn = "iconv" /\ calls[i].ret > 0
(***************************************************************************)
(* C19: closed is absorbing, and only close changes whether a handle is    *)
(* open.  The descriptor stored in an existing userdata changes only in a  *)
(* call of Liconv_close on it whose iconv_close returned 0, and only from  *)
(* a descriptor to NULL; no call of convert changes a stored descriptor or *)
(* the state of a library descriptor; a NULL stays NULL and a released     *)
(* descriptor stays released.                                              *)
(***************************************************************************)
C19_ClosedIsAbsorbing ==
    [][\A h \in Handles :
          /\ kind[h] # "none" /\ cd'[h] # cd[h] =>
                /\ cd[h] # NULL /\ cd'[h] = NULL
                /\ last'.op \in CloseOps /\ last'.h = h
                /\ Len(calls') = 1
                /\ calls'[1].fn = "iconv_close" /\ calls'[1].cd = cd[h]
                /\ calls'[1].ret = 0
          /\ last'.op \in ConvertOps => cd' = cd /\ desc' = desc
          /\ kind[h] # "none" /\ cd[h] = NULL => cd'[h] = NULL
          /\ desc[h] = "released" => desc'[h] = "released"
          /\ kind[h] # "none" => kind'[h] = kind[h]]_vars

\* convert on a handle closed after a successful conversion: still closed
C19_Witness ==
    /\ last.op \in ConvertOps /\ last.pre.cd = NULL /\ last.pre.lastOk
    /\ cd[last.h] = NULL /\ desc[last.h] = "released"
(***************************************************************************)
(* C20: iconv.list builds a gap-free sequence.  Whatever groups of names   *)
(* iconvlist hands to push_one, between callbacks the stack holds the      *)
(* table and the next unused index, and the table returned has exactly the *)
(* keys 1..(number of names delivered), the i-th name delivered at key i;  *)
(* the counter is removed, so the table is the only value left and         *)
(* returned.                                                               *)
(***************************************************************************)
IsSequenceOf(tb, names) ==
    /\ DOMAIN tb = 1..Len(names)
    /\ \A i \in 1..Len(names) : tb[i] = LuaString(<<names[i]>>)

C20_ListIsSequence ==
    /\ list.pc = "iconvlist" =>
          /\ Len(list.stack) = 2
          /\ list.stack[1].type = "table"
          /\ IsSequenceOf(list.stack[1].t, list.delivered)
          /\ list.stack[2] = LuaInteger(Len(list.delivered) + 1)
    /\ list.pc = "returned" =>
          /\ Len(list.stack) = 1
          /\ Len(rets) = 1
          /\ rets[1].type = "table"
          /\ IsSequenceOf(rets[1].t, list.delivered)

\* a table returned after MaxCallbacks callbacks delivered more names than
\* one callback can
C20_Witness ==
    /\ list.pc = "returned" /\ list.callbacks = MaxCallbacks
    /\ Len(list.delivered) = MaxNames + 1
    /\ Len(rets) = 1 /\ DOMAIN rets[1].t = 1..(MaxNames + 1)
====
